---- MODULE Spec2Model ----
(***************************************************************************)
(* Model of src/timetable_generator_new.py: the TimeTableGenerator class.  *)
(* load_data, preprocess_data and create_model are the actions, in the     *)
(* order run() calls them.  The CP-SAT solver called by create_model is    *)
(* modelled by its contract: it answers OPTIMAL with an objective-maximal  *)
(* assignment satisfying every constraint added to the model, FEASIBLE     *)
(* with any satisfying assignment, INFEASIBLE when none exists, or UNKNOWN *)
(* when the time limit ends the search before an assignment is found.      *)
(*                                                                         *)
(* The 'name' and 'credit' fields of a subject are copied through the      *)
(* program without influencing any decision and are left out.              *)
(***************************************************************************)
EXTENDS Integers, Sequences, FiniteSets, TLC

VARIABLES pc, rooms_data, subjects_data, days, periods, processed_data,
          assignments, status, solution, score, timetable, ret, printed

vars == <<pc, rooms_data, subjects_data, days, periods, processed_data,
          assignments, status, solution, score, timetable, ret, printed>>

----------------------------------------------------------------------------
(* Bounds of the model *)

MaxSubjects == 2
MaxRooms == 2
MaxDays == 2

----------------------------------------------------------------------------
(* Static configuration: __init__ *)

AllDays == <<"Lundi", "Mardi", "Mercredi", "Jeudi", "Vendredi", "Samedi">>

AllPeriods == << <<"07:00-09:55", 1>>, <<"10:05-12:55", 2>>, <<"13:05-15:55", 3>>,
                 <<"16:05-18:55", 4>>, <<"19:05-21:55", 5>> >>

NonAssigne == "Non assigne"

(* The grids the model runs on: a prefix of the days, and either the two   *)
(* morning periods or the last period alone.                               *)
DayGrids == { SubSeq(AllDays, 1, n) : n \in 1..MaxDays }

PeriodGrids == { SubSeq(AllPeriods, 1, 2), SubSeq(AllPeriods, 5, 5) }

----------------------------------------------------------------------------
(* Input files *)

NoCode == ""

Codes == {"C1", "C2", "CX"}

Niveaux == {"1", "2"}

Semestres == {"s1"}

(* A JSON value of 'Course Lecturer' / 'Assitant lecturer': a string or a  *)
(* list of strings.                                                        *)
JsonList(items) == [isStr |-> FALSE, s |-> "", items |-> items]

JsonStr(s) == [isStr |-> TRUE, s |-> s, items |-> <<>>]

LecturerInputs == { JsonList(<<" ">>), JsonList(<<"A">>) }

AssistantInputs == { JsonList(<<>>), JsonStr("B ") }

SubjectInputs == [code : Codes \cup {NoCode}, niveau : Niveaux, semestre : Semestres,
                  lecturers : LecturerInputs, assistants : AssistantInputs]

SubjectsFiles == UNION { [1..n -> SubjectInputs] : n \in 0..MaxSubjects }

(* A room entry of rooms.json, with or without its 'num' key *)
Room(n) == [hasNum |-> TRUE, num |-> n]

RoomNoNum == [hasNum |-> FALSE, num |-> 0]

RoomsFiles == { [i \in 1..n |-> Room(i)] : n \in 0..MaxRooms } \cup { <<RoomNoNum>> }

----------------------------------------------------------------------------
(* Helpers *)

RECURSIVE Concat(_)
Concat(ss) == IF ss = <<>> THEN <<>> ELSE Head(ss) \o Concat(Tail(ss))

Range(s) == { s[i] : i \in DOMAIN s }

RECURSIVE SumOver(_, _)
SumOver(S, f) ==
    IF S = {} THEN 0
    ELSE LET x == CHOOSE y \in S : TRUE IN f[x] + SumOver(S \ {x}, f)

(* dict insertion order: a key assigned again keeps its first position *)
RECURSIVE DictKeys(_)
DictKeys(s) ==
    IF s = <<>> THEN <<>>
    ELSE LET front == DictKeys(SubSeq(s, 1, Len(s) - 1))
             last == s[Len(s)]
         IN IF last \in Range(front) THEN front ELSE Append(front, last)

(* sorted(list(S)): the sequence of the elements of S by increasing rank *)
RECURSIVE SortedBy(_, _)
SortedBy(S, rank) ==
    IF S = {} THEN <<>>
    ELSE LET m == CHOOSE x \in S : \A y \in S : rank[x] <= rank[y]
         IN <<m>> \o SortedBy(S \ {m}, rank)

(* Lexicographic order of the strings the inputs are made of *)
StrRank(s) ==
    CASE s = "1" -> 1 [] s = "2" -> 2 [] s = "s1" -> 1
      [] s = "A" -> 1 [] s = "B" -> 2 [] OTHER -> 0

----------------------------------------------------------------------------
(* preprocess_data *)

(* str.strip() on the strings of the inputs *)
Strip(s) == CASE s = " " -> "" [] s = "B " -> "B" [] OTHER -> s

(* code[-1] *)
LastChar(code) == CASE code = "C1" -> "1" [] code = "C2" -> "2" [] OTHER -> "X"

(* int(ch) raises ValueError unless ch is a digit *)
IsDigit(ch) == ch \in {"0", "1", "2", "3", "4", "5", "6", "7", "8", "9"}

(* class_name = f"L{level}_{semester}" *)
ClassName(level, semester) == <<level, semester>>

AsList(json) == IF json.isStr THEN <<json.s>> ELSE json.items

(* [l.strip() for l in lecturers if l and isinstance(l, str) and l.strip()] *)
ValidNames(list) ==
    LET kept == SelectSeq(list, LAMBDA l : l # "" /\ Strip(l) # "")
    IN [i \in 1..Len(kept) |-> Strip(kept[i])]

ExtractRooms(rd) ==
    LET kept == SelectSeq(rd, LAMBDA room : room.hasNum)
    IN [i \in 1..Len(kept) |-> kept[i].num]

Put(f, k, v) == [x \in DOMAIN f \cup {k} |-> IF x = k THEN v ELSE f[x]]

EmptyAcc == [classes |-> {}, courses |-> <<>>, teachers |-> {}, curriculum |-> <<>>,
             raised |-> FALSE]

(* One iteration of the loop over self.subjects_data *)
PreprocessSubject(acc, subject) ==
    LET code == subject.code
        class_name == ClassName(subject.niveau, subject.semestre)
        valid_lecturers == ValidNames(AsList(subject.lecturers))
        valid_assistants == ValidNames(AsList(subject.assistants))
        cur == IF class_name \in DOMAIN acc.curriculum
               THEN acc.curriculum[class_name] ELSE <<>>
    IN IF acc.raised \/ code = NoCode THEN acc
       ELSE IF ~IsDigit(LastChar(code)) THEN [acc EXCEPT !.raised = TRUE]
       ELSE [classes |-> acc.classes \cup {class_name},
             courses |-> Put(acc.courses, code,
                             [lecturers |-> valid_lecturers,
                              assistants |-> valid_assistants]),
             teachers |-> acc.teachers \cup Range(valid_lecturers)
                                       \cup Range(valid_assistants),
             curriculum |-> Put(acc.curriculum, class_name, Append(cur, code)),
             raised |-> FALSE]

RECURSIVE PreprocessLoop(_, _)
PreprocessLoop(acc, subjects) ==
    IF subjects = <<>> THEN acc
    ELSE PreprocessLoop(PreprocessSubject(acc, Head(subjects)), Tail(subjects))

NoData == [classes |-> <<>>, courses |-> <<>>, teachers |-> <<>>, rooms |-> <<>>,
           curriculum |-> <<>>, days |-> <<>>, periods |-> <<>>]

Preprocessed(rd, sd, ds, ps) ==
    LET acc == PreprocessLoop(EmptyAcc, sd)
    IN [classes |-> SortedBy(acc.classes,
                             [c \in acc.classes |-> 10 * StrRank(c[1]) + StrRank(c[2])]),
        courses |-> acc.courses,
        teachers |-> SortedBy(acc.teachers, [t \in acc.teachers |-> StrRank(t)]),
        rooms |-> ExtractRooms(rd),
        curriculum |-> acc.curriculum,
        days |-> ds,
        periods |-> ps]

----------------------------------------------------------------------------
(* create_model: decision variables *)

(* key = (class_name, course_code, teacher, room, day, period) *)
KeyClass(key) == key[1]

KeyCourse(key) == key[2]

KeyTeacher(key) == key[3]

KeyRoom(key) == key[4]

KeyDay(key) == key[5]

KeyPeriod(key) == key[6]

(* self.processed_data['curriculum'].get(class_name, []) *)
CurriculumOf(pd, class_name) ==
    IF class_name \in DOMAIN pd.curriculum THEN pd.curriculum[class_name] ELSE <<>>

(* mutant: no sentinel is substituted *)
TeachersForCourse_NoSentinel(pd, course_code) ==
    LET course_info == IF course_code \in DOMAIN pd.courses
                       THEN pd.courses[course_code]
                       ELSE [lecturers |-> <<>>, assistants |-> <<>>]
    IN course_info.lecturers \o course_info.assistants

(* mutant: a course with teachers gets every teacher of the teacher list *)
TeachersForCourse_AllTeachers(pd, course_code) ==
    LET course_info == IF course_code \in DOMAIN pd.courses
                       THEN pd.courses[course_code]
                       ELSE [lecturers |-> <<>>, assistants |-> <<>>]
        listed == course_info.lecturers \o course_info.assistants
    IN IF listed = <<>> THEN <<NonAssigne>> ELSE pd.teachers

(* lecturers + assistants of the course, or ["Non assigné"] when there are none *)
TeachersForCourse(pd, course_code) ==
    LET course_info == IF course_code \in DOMAIN pd.courses
                       THEN pd.courses[course_code]
                       ELSE [lecturers |-> <<>>, assistants |-> <<>>]
        listed == course_info.lecturers \o course_info.assistants
    IN IF listed = <<>> THEN <<NonAssigne>> ELSE listed

(* the six nested loops, in order; a key built twice is one dict entry *)
BuildAssignments(pd) ==
    LET slots(class_name, course_code, teacher, room) ==
            Concat([d \in 1..Len(pd.days) |->
                [p \in 1..Len(pd.periods) |->
                    <<class_name, course_code, teacher, room,
                      pd.days[d], pd.periods[p][1]>>]])
        forTeacher(class_name, course_code, teacher) ==
            IF Strip(teacher) = "" THEN <<>>
            ELSE Concat([r \in 1..Len(pd.rooms) |->
                     slots(class_name, course_code, teacher, pd.rooms[r])])
        forCourse(class_name, course_code) ==
            LET ts == TeachersForCourse(pd, course_code)
            IN Concat([t \in 1..Len(ts) |-> forTeacher(class_name, course_code, ts[t])])
        forClass(class_name) ==
            LET cur == CurriculumOf(pd, class_name)
            IN Concat([c \in 1..Len(cur) |-> forCourse(class_name, cur[c])])
    IN DictKeys(Concat([i \in 1..Len(pd.classes) |-> forClass(pd.classes[i])]))

----------------------------------------------------------------------------
(* create_model: constraints.  Each is the list of variables the code      *)
(* hands to AddExactlyOne / AddAtMostOne, as a set of keys.                *)

(* mutant: the filter forgets the course *)
CourseVars_AnyCourse(asg, class_name, course_code) ==
    { key \in Range(asg) : KeyClass(key) = class_name }

CourseVars(asg, class_name, course_code) ==
    { key \in Range(asg) : KeyClass(key) = class_name /\ KeyCourse(key) = course_code }

(* mutant: the day is compared with the period field of the key *)
ClassVars_WrongField(asg, class_name, day, period) ==
    { key \in Range(asg) :
        KeyClass(key) = class_name /\ KeyPeriod(key) = day /\ KeyPeriod(key) = period }

ClassVars(asg, class_name, day, period) ==
    { key \in Range(asg) :
        KeyClass(key) = class_name /\ KeyDay(key) = day /\ KeyPeriod(key) = period }

(* mutant: the period is compared with the day field of the key *)
RoomVars_WrongField(asg, room, day, period) ==
    { key \in Range(asg) :
        KeyRoom(key) = room /\ KeyDay(key) = day /\ KeyDay(key) = period }

RoomVars(asg, room, day, period) ==
    { key \in Range(asg) :
        KeyRoom(key) = room /\ KeyDay(key) = day /\ KeyPeriod(key) = period }

(* mutant: the teacher is compared with the course field of the key *)
TeacherVars_WrongField(asg, teacher, day, period) ==
    { key \in Range(asg) :
        KeyCourse(key) = teacher /\ KeyDay(key) = day /\ KeyPeriod(key) = period }

TeacherVars(asg, teacher, day, period) ==
    { key \in Range(asg) :
        KeyTeacher(key) = teacher /\ KeyDay(key) = day /\ KeyPeriod(key) = period }

PeriodLabels(pd) == { pd.periods[p][1] : p \in DOMAIN pd.periods }

(* the (class, course) pairs the loops of the constraints run over *)
CurriculumPairs(pd) ==
    UNION { { <<c, k>> : k \in Range(CurriculumOf(pd, c)) } : c \in Range(pd.classes) }

(* 1. model.AddExactlyOne(course_vars), skipped when course_vars is empty *)
ExactlyOneGroups(pd, asg) ==
    { CourseVars(asg, ck[1], ck[2]) : ck \in CurriculumPairs(pd) } \ {{}}

(* 2. to 4. model.AddAtMostOne(...), skipped when the list is empty *)
(* mutant: the loop over the classes starts at the second class *)
ClassGroups_SkipFirst(pd, asg) ==
    { ClassVars(asg, x[1], x[2], x[3]) :
        x \in Range(Tail(pd.classes)) \X Range(pd.days) \X PeriodLabels(pd) } \ {{}}

ClassGroups(pd, asg) ==
    { ClassVars(asg, x[1], x[2], x[3]) :
        x \in Range(pd.classes) \X Range(pd.days) \X PeriodLabels(pd) } \ {{}}

RoomGroups(pd, asg) ==
    { RoomVars(asg, x[1], x[2], x[3]) :
        x \in Range(pd.rooms) \X Range(pd.days) \X PeriodLabels(pd) } \ {{}}

TeacherGroups(pd, asg) ==
    { TeacherVars(asg, x[1], x[2], x[3]) :
        x \in Range(pd.teachers) \X Range(pd.days) \X PeriodLabels(pd) } \ {{}}

AtMostOneGroups(pd, asg) ==
    ClassGroups(pd, asg) \cup RoomGroups(pd, asg) \cup TeacherGroups(pd, asg)

----------------------------------------------------------------------------
(* create_model: objective *)

(* next((5 - w for p, w in periods if p == period), 0) *)
(* mutant: 6 - w *)
PeriodWeight_Six(pd, period) ==
    LET hits == SelectSeq(pd.periods, LAMBDA pw : pw[1] = period)
    IN IF hits = <<>> THEN 0 ELSE 6 - hits[1][2]

PeriodWeight(pd, period) ==
    LET hits == SelectSeq(pd.periods, LAMBDA pw : pw[1] = period)
    IN IF hits = <<>> THEN 0 ELSE 5 - hits[1][2]

(* objective_terms: the coefficient of each variable *)
ObjectiveTerms(pd, asg) == [key \in Range(asg) |-> PeriodWeight(pd, KeyPeriod(key))]

ObjectiveValue(pd, asg, trueVars) == SumOver(trueVars, ObjectiveTerms(pd, asg))

----------------------------------------------------------------------------
(* The solver: solver.Solve(model) and solver.Value(var) *)

Satisfies(trueVars, exactly, atMost) ==
    /\ \A g \in exactly : Cardinality(trueVars \cap g) = 1
    /\ \A g \in atMost : Cardinality(trueVars \cap g) <= 1

(* one variable out of every group of G *)
RECURSIVE Picks(_)
Picks(G) ==
    IF G = {} THEN {{}}
    ELSE LET g == CHOOSE x \in G : TRUE
         IN { P \cup {key} : P \in Picks(G \ {g}), key \in g }

(* every assignment of the variables that satisfies the constraints: a     *)
(* variable of an exactly-one group is true only as its group's pick, the  *)
(* variables of no such group are free                                     *)
Solutions(pd, asg) ==
    LET exactly == ExactlyOneGroups(pd, asg)
        atMost == AtMostOneGroups(pd, asg)
        free == Range(asg) \ UNION exactly
    IN { T \in { P \cup F : P \in Picks(exactly), F \in SUBSET free } :
           Satisfies(T, exactly, atMost) }

(* the largest objective value a solution reaches *)
BestObjective(pd, asg, sols) ==
    LET terms == ObjectiveTerms(pd, asg)
        values == { SumOver(T, terms) : T \in sols }
    IN IF values = {} THEN 0 ELSE CHOOSE v \in values : \A w \in values : w <= v

----------------------------------------------------------------------------
(* create_model: result extraction *)

(* mutant: the line self.timetable = {} is missing *)
ResetTimetable_Keep(old) == old

(* self.timetable = {} (line 260), whatever the timetable held before *)
ResetTimetable(old) == <<>>

(* self.timetable[class_name][day][period] = {...} for every true variable, *)
(* in the order of assignments.items(); the nested dicts are one mapping   *)
(* keyed by (class, day, period)                                           *)
RECURSIVE ExtractTimetable(_, _, _)
ExtractTimetable(tt, asg, trueVars) ==
    IF asg = <<>> THEN tt
    ELSE LET key == Head(asg)
             cell == <<KeyClass(key), KeyDay(key), KeyPeriod(key)>>
             entry == [course |-> KeyCourse(key), teacher |-> KeyTeacher(key),
                       room |-> KeyRoom(key)]
         IN ExtractTimetable(IF key \in trueVars THEN Put(tt, cell, entry) ELSE tt,
                             Tail(asg), trueVars)

----------------------------------------------------------------------------
(* The generator *)

(* mutant: the exit of the empty variable space is a bare return *)
CreateModelReturn_BareReturn(exit) ==
    CASE exit = "solution" -> "True"
      [] exit = "no_variable" -> "None"
      [] OTHER -> "False"

(* what create_model returns at each of its exits: lines 156, 247, 279, 282 *)
CreateModelReturn(exit) ==
    CASE exit = "solution" -> "True"
      [] exit = "insufficient" -> "False"
      [] exit = "no_variable" -> "False"
      [] exit = "infeasible" -> "False"
      [] exit = "timeout" -> "False"

Insufficient(pd) == pd = NoData \/ pd.classes = <<>>

Init ==
    /\ pc = "constructed"
    /\ rooms_data = <<>>
    /\ subjects_data = <<>>
    /\ days \in DayGrids
    /\ periods \in PeriodGrids
    /\ processed_data = NoData
    /\ assignments = <<>>
    /\ status = "UNSOLVED"
    /\ solution = {}
    /\ score = 0
    /\ timetable = <<>>
    /\ ret = "None"
    /\ printed = <<"Debut du traitement", "">>

(* load_data: both files exist and parse *)
load_data ==
    /\ pc = "constructed"
    /\ rooms_data' \in RoomsFiles
    /\ subjects_data' \in SubjectsFiles
    /\ pc' = "loaded"
    /\ ret' = "True"
    /\ printed' = <<"Donnees chargees avec succes", "">>
    /\ UNCHANGED <<days, periods, processed_data, assignments, status, solution,
                   score, timetable>>

(* load_data: a file is missing or is no JSON; run() stops *)
load_data_fails ==
    /\ pc = "constructed"
    /\ pc' = "done"
    /\ ret' = "False"
    /\ printed' = <<"Erreur lors du chargement des donnees", "">>
    /\ UNCHANGED <<rooms_data, subjects_data, days, periods, processed_data,
                   assignments, status, solution, score, timetable>>

preprocess_data ==
    /\ pc = "loaded"
    /\ ~PreprocessLoop(EmptyAcc, subjects_data).raised
    /\ processed_data' = Preprocessed(rooms_data, subjects_data, days, periods)
    /\ pc' = "preprocessed"
    /\ ret' = "True"
    /\ printed' = <<"Donnees pretraitees avec succes", "">>
    /\ UNCHANGED <<rooms_data, subjects_data, days, periods, assignments, status,
                   solution, score, timetable>>

(* preprocess_data: int(code[-1]) raised; run() stops *)
preprocess_data_raises ==
    /\ pc = "loaded"
    /\ PreprocessLoop(EmptyAcc, subjects_data).raised
    /\ pc' = "done"
    /\ ret' = "False"
    /\ printed' = <<"Erreur lors du pretraitement des donnees", "">>
    /\ UNCHANGED <<rooms_data, subjects_data, days, periods, processed_data,
                   assignments, status, solution, score, timetable>>

(* create_model, lines 154-156 *)
create_model_insufficient ==
    /\ pc = "preprocessed"
    /\ Insufficient(processed_data)
    /\ pc' = "done"
    /\ ret' = CreateModelReturn("insufficient")
    /\ printed' = <<"Donnees insuffisantes pour creer le modele", "">>
    /\ UNCHANGED <<rooms_data, subjects_data, days, periods, processed_data,
                   assignments, status, solution, score, timetable>>

(* create_model, lines 243-247: objective_terms is empty *)
create_model_no_variable ==
    /\ pc = "preprocessed"
    /\ ~Insufficient(processed_data)
    /\ BuildAssignments(processed_data) = <<>>
    /\ assignments' = <<>>
    /\ pc' = "done"
    /\ ret' = CreateModelReturn("no_variable")
    /\ printed' = <<"Aucune variable pour l'objectif", "">>
    /\ UNCHANGED <<rooms_data, subjects_data, days, periods, processed_data,
                   status, solution, score, timetable>>

(* create_model, lines 256-279: the solver answers OPTIMAL with a solution *)
(* of the largest objective value, or FEASIBLE with any solution           *)
create_model_solution ==
    /\ pc = "preprocessed"
    /\ ~Insufficient(processed_data)
    /\ \E asg \in {BuildAssignments(processed_data)} :
       \E sols \in {Solutions(processed_data, asg)} :
       \E best \in {BestObjective(processed_data, asg, sols)} :
          /\ asg # <<>>
          /\ assignments' = asg
          /\ \E T \in sols :
                /\ solution' = T
                /\ score' = ObjectiveValue(processed_data, asg, T)
                /\ \/ status' = "FEASIBLE"
                   \/ /\ score' = best
                      /\ status' = "OPTIMAL"
                /\ timetable' = ExtractTimetable(ResetTimetable(timetable), asg, T)
                /\ printed' = <<"Solution trouvee avec score", status'>>
    /\ pc' = "done"
    /\ ret' = CreateModelReturn("solution")
    /\ UNCHANGED <<rooms_data, subjects_data, days, periods, processed_data>>

(* create_model, lines 280-282: the solver answers INFEASIBLE, or UNKNOWN  *)
(* when the time limit ends the search with no assignment found            *)
create_model_no_solution ==
    /\ pc = "preprocessed"
    /\ ~Insufficient(processed_data)
    /\ \E asg \in {BuildAssignments(processed_data)} :
          /\ asg # <<>>
          /\ assignments' = asg
          /\ \/ /\ Solutions(processed_data, asg) = {}
                /\ status' = "INFEASIBLE"
             \/ status' = "UNKNOWN"
    /\ pc' = "done"
    /\ ret' = CreateModelReturn(IF status' = "INFEASIBLE" THEN "infeasible" ELSE "timeout")
    /\ printed' = <<"Aucune solution trouvee. Statut", status'>>
    /\ UNCHANGED <<rooms_data, subjects_data, days, periods, processed_data,
                   solution, score, timetable>>

create_model ==
    \/ create_model_insufficient
    \/ create_model_no_variable
    \/ create_model_solution
    \/ create_model_no_solution

Next ==
    \/ load_data
    \/ load_data_fails
    \/ preprocess_data
    \/ preprocess_data_raises
    \/ create_model

Spec == Init /\ [][Next]_vars

----------------------------------------------------------------------------
(* Properties *)

(* create_model returned a solution *)
Returned == pc = "done" /\ status \in {"OPTIMAL", "FEASIBLE"}

TrueVarsOf(class_name, course_code) ==
    { key \in solution : KeyClass(key) = class_name /\ KeyCourse(key) = course_code }

EntriesOf(class_name, course_code) ==
    { cell \in DOMAIN timetable :
        cell[1] = class_name /\ timetable[cell].course = course_code }

SameSlot(k1, k2) == KeyDay(k1) = KeyDay(k2) /\ KeyPeriod(k1) = KeyPeriod(k2)

(* C1: coverage. In every returned solution each (class, course) pair of   *)
(* the curriculum has exactly one true variable, and the timetable holds   *)
(* exactly one entry for it.                                               *)
C1_Coverage ==
    Returned =>
        \A ck \in CurriculumPairs(processed_data) :
            /\ Cardinality(TrueVarsOf(ck[1], ck[2])) = 1
            /\ Cardinality(EntriesOf(ck[1], ck[2])) = 1

C1_Witness ==
    /\ Returned
    /\ \E c \in Range(processed_data.classes) :
           Cardinality(Range(CurriculumOf(processed_data, c))) = 2

(* C2 as claimed: in every returned solution no teacher of a variable, the *)
(* sentinel "Non assigné" included, has two true variables in one slot.    *)
C2_NoTeacherConflictWithSentinel ==
    Returned =>
        \A k1 \in solution : \A k2 \in solution \ {k1} :
            KeyTeacher(k1) = KeyTeacher(k2) => ~SameSlot(k1, k2)

(* C2 amended: in every returned solution no teacher of the teacher list   *)
(* (the lecturers and assistants the courses name) has two true variables  *)
(* in one slot; the sentinel is not in that list and is not constrained.   *)
C2_NoListedTeacherConflict ==
    Returned =>
        \A k1 \in solution : \A k2 \in solution \ {k1} :
            (KeyTeacher(k1) = KeyTeacher(k2)
               /\ KeyTeacher(k1) \in Range(processed_data.teachers))
            => ~SameSlot(k1, k2)

(* two classes taught by one listed teacher, in two rooms *)
C2_Witness ==
    /\ Returned
    /\ \E k1 \in solution : \E k2 \in solution :
          /\ KeyClass(k1) # KeyClass(k2)
          /\ KeyRoom(k1) # KeyRoom(k2)
          /\ KeyTeacher(k1) = KeyTeacher(k2)
          /\ KeyTeacher(k1) \in Range(processed_data.teachers)

(* the preference weight of a period, from the table of __init__ *)
WeightOfPeriod(label) ==
    LET i == CHOOSE j \in DOMAIN AllPeriods : AllPeriods[j][1] = label
    IN AllPeriods[i][2]

(* 1 class with curriculum [C1, C2], 1 room, 1 teacher eligible for both,  *)
(* and only the two Monday slots of weights 1 and 2                        *)
MondayScenario ==
    /\ Len(processed_data.classes) = 1
    /\ CurriculumOf(processed_data, processed_data.classes[1]) = <<"C1", "C2">>
    /\ Len(processed_data.rooms) = 1
    /\ Len(processed_data.teachers) = 1
    /\ \A c \in {"C1", "C2"} :
          TeachersForCourse(processed_data, c) = processed_data.teachers
    /\ processed_data.days = <<"Lundi">>
    /\ processed_data.periods = SubSeq(AllPeriods, 1, 2)

(* C3 as claimed: every variable weighs 6 minus the weight of its period   *)
(* in the objective, and the Monday scenario's optimum scores 5+4 = 9.     *)
C3_WeightSixMinus ==
    pc = "done" =>
        /\ \A key \in Range(assignments) :
              ObjectiveTerms(processed_data, assignments)[key]
                  = 6 - WeightOfPeriod(KeyPeriod(key))
        /\ (MondayScenario /\ status = "OPTIMAL") => score = 9

(* C3 amended: every variable weighs 5 minus the weight of its period      *)
(* (weight 1 gives 4, weight 5 gives 0), the reported score is the sum of  *)
(* these over the true variables, and the Monday scenario's optimum        *)
(* scores 4+3 = 7.                                                         *)
C3_WeightFiveMinus ==
    pc = "done" =>
        /\ \A key \in Range(assignments) :
              ObjectiveTerms(processed_data, assignments)[key]
                  = 5 - WeightOfPeriod(KeyPeriod(key))
        /\ Returned =>
              score = SumOver(solution, [key \in solution |->
                                            5 - WeightOfPeriod(KeyPeriod(key))])
        /\ (MondayScenario /\ status = "OPTIMAL") => score = 7

C3_Witness == pc = "done" /\ MondayScenario /\ status = "OPTIMAL" /\ score = 7

(* C4: in every returned solution no class has two true variables in one   *)
(* slot, so every true variable has a timetable cell of its own.           *)
C4_NoClassConflict ==
    Returned =>
        /\ \A k1 \in solution : \A k2 \in solution \ {k1} :
              KeyClass(k1) = KeyClass(k2) => ~SameSlot(k1, k2)
        /\ Cardinality(DOMAIN timetable) = Cardinality(solution)

(* one class with two courses placed, in two rooms with two teachers *)
C4_Witness ==
    /\ Returned
    /\ \E k1 \in solution : \E k2 \in solution :
          /\ KeyClass(k1) = KeyClass(k2)
          /\ KeyCourse(k1) # KeyCourse(k2)
          /\ KeyRoom(k1) # KeyRoom(k2)
          /\ KeyTeacher(k1) # KeyTeacher(k2)

(* C5: in every returned solution no room has two true variables in one    *)
(* slot.                                                                   *)
C5_NoRoomConflict ==
    Returned =>
        \A k1 \in solution : \A k2 \in solution \ {k1} :
            KeyRoom(k1) = KeyRoom(k2) => ~SameSlot(k1, k2)

(* two classes with different teachers placed in the same room *)
C5_Witness ==
    /\ Returned
    /\ \E k1 \in solution : \E k2 \in solution :
          /\ KeyClass(k1) # KeyClass(k2)
          /\ KeyTeacher(k1) # KeyTeacher(k2)
          /\ KeyRoom(k1) = KeyRoom(k2)

(* the three inputs C6 calls malformed *)
LacksCode == \E i \in DOMAIN subjects_data : subjects_data[i].code = NoCode

RoomUniverseEmpty == ExtractRooms(rooms_data) = <<>>

TeacherUniverseEmpty ==
    \A i \in DOMAIN subjects_data :
        /\ ValidNames(AsList(subjects_data[i].lecturers)) = <<>>
        /\ ValidNames(AsList(subjects_data[i].assistants)) = <<>>

WithCode(subjects) == SelectSeq(subjects, LAMBDA subject : subject.code # NoCode)

(* C6 as claimed: when a course lacks a code, or there is no room, or no   *)
(* course lists a teacher, the run ends in failure with no variable built, *)
(* the solver not called and no timetable.                                 *)
C6_MalformedRejected ==
    (pc = "done" /\ (LacksCode \/ RoomUniverseEmpty \/ TeacherUniverseEmpty)) =>
        /\ ret = "False"
        /\ assignments = <<>>
        /\ status = "UNSOLVED"
        /\ timetable = <<>>

(* C6 amended: a subject without a code is skipped, the others are         *)
(* processed as if it were absent; with courses but no room, create_model  *)
(* builds zero variables and returns False before the solver is called,    *)
(* with no timetable; with courses and rooms but no teacher nothing is     *)
(* rejected: every variable carries the sentinel teacher and the solver    *)
(* is called.                                                              *)
C6_MalformedHandling ==
    /\ processed_data # NoData =>
          processed_data = Preprocessed(rooms_data, WithCode(subjects_data), days, periods)
    /\ (pc = "done" /\ ~Insufficient(processed_data) /\ processed_data.rooms = <<>>) =>
          /\ ret = "False"
          /\ printed[1] = "Aucune variable pour l'objectif"
          /\ assignments = <<>>
          /\ status = "UNSOLVED"
          /\ timetable = <<>>
    /\ (pc = "done" /\ ~Insufficient(processed_data) /\ processed_data.rooms # <<>>
          /\ processed_data.teachers = <<>>) =>
          /\ assignments # <<>>
          /\ \A key \in Range(assignments) : KeyTeacher(key) = NonAssigne
          /\ status # "UNSOLVED"

(* a timetable made from a file with a code-less subject and no teacher *)
C6_Witness ==
    /\ pc = "done"
    /\ LacksCode
    /\ TeacherUniverseEmpty
    /\ ret = "True"
    /\ timetable # <<>>

(* create_model ended at the exit of the empty variable space *)
ZeroVariables ==
    /\ pc = "done"
    /\ ~Insufficient(processed_data)
    /\ BuildAssignments(processed_data) = <<>>

(* C7 as claimed: the value create_model returns for an empty variable     *)
(* space, for a proven-infeasible model and for a time-out with no         *)
(* assignment are three different values.                                  *)
C7_FailuresDistinct ==
    /\ ZeroVariables =>
          ret \notin {CreateModelReturn("infeasible"), CreateModelReturn("timeout")}
    /\ (pc = "done" /\ status = "INFEASIBLE") =>
          ret \notin {CreateModelReturn("no_variable"), CreateModelReturn("timeout")}
    /\ (pc = "done" /\ status = "UNKNOWN") =>
          ret \notin {CreateModelReturn("no_variable"), CreateModelReturn("infeasible")}

(* C7 amended: create_model returns the same value False for an empty      *)
(* variable space, an infeasible model and a time-out; only the printed    *)
(* line differs: one message for the empty variable space, another for the *)
(* two solver failures, which carries the solver status.                   *)
C7_FailuresReturnFalse ==
    /\ ZeroVariables =>
          ret = "False" /\ printed = <<"Aucune variable pour l'objectif", "">>
    /\ (pc = "done" /\ status \in {"INFEASIBLE", "UNKNOWN"}) =>
          ret = "False" /\ printed = <<"Aucune solution trouvee. Statut", status>>

C7_Witness ==
    \/ ZeroVariables /\ ret = "False"
    \/ pc = "done" /\ status = "INFEASIBLE" /\ ret = "False"

(* some class has more distinct courses than the week has slots *)
MoreCoursesThanSlots ==
    \E c \in Range(processed_data.classes) :
        Cardinality(Range(CurriculumOf(processed_data, c)))
            > Len(processed_data.days) * Len(processed_data.periods)

(* C8: when a class has more distinct courses than there are slots, the    *)
(* constraints over the variables (when there are any) admit no            *)
(* assignment, create_model returns no solution and writes no timetable    *)
(* entry.                                                                  *)
C8_Infeasible ==
    MoreCoursesThanSlots =>
        /\ (pc = "preprocessed" /\ BuildAssignments(processed_data) # <<>>) =>
              Solutions(processed_data, BuildAssignments(processed_data)) = {}
        /\ pc = "done" =>
              /\ ret = "False"
              /\ ~Returned
              /\ solution = {}
              /\ timetable = <<>>

(* two courses of one class, one slot, two rooms: proven infeasible *)
C8_Witness ==
    /\ pc = "done"
    /\ MoreCoursesThanSlots
    /\ Len(processed_data.rooms) = 2
    /\ status = "INFEASIBLE"

(* the eligible teachers of a course: its lecturers and assistants *)
Eligible(course_code) ==
    Range(processed_data.courses[course_code].lecturers)
        \cup Range(processed_data.courses[course_code].assistants)

(* C9: every variable's course is in the curriculum of its class; its      *)
(* teacher is an eligible teacher of the course, or the sentinel exactly   *)
(* when the course has none; and with a room every curriculum course has   *)
(* variables, so a course without teachers still has its placement.        *)
C9_VariableSpace ==
    /\ \A key \in Range(assignments) :
          /\ KeyCourse(key) \in Range(CurriculumOf(processed_data, KeyClass(key)))
          /\ KeyTeacher(key) \in Eligible(KeyCourse(key)) \cup {NonAssigne}
          /\ KeyTeacher(key) = NonAssigne <=> Eligible(KeyCourse(key)) = {}
    /\ (pc = "done" /\ ~Insufficient(processed_data) /\ processed_data.rooms # <<>>) =>
          \A ck \in CurriculumPairs(processed_data) :
              \E key \in Range(assignments) :
                  KeyClass(key) = ck[1] /\ KeyCourse(key) = ck[2]

(* a course placed with the sentinel beside a course with two teachers *)
C9_Witness ==
    /\ Returned
    /\ \E k1 \in solution : KeyTeacher(k1) = NonAssigne
    /\ \E k2 \in Range(assignments) :
          Cardinality(Eligible(KeyCourse(k2))) = 2

----------------------------------------------------------------------------
(* The extraction step of create_model (lines 259-279) on its own: it is   *)
(* handed the variables of a model and any set of at most MaxTrueVars of   *)
(* them as the true ones.                                                  *)

MaxTrueVars == 2

RECURSIVE SubsetsUpTo(_, _)
SubsetsUpTo(S, n) ==
    IF n = 0 THEN {{}}
    ELSE LET smaller == SubsetsUpTo(S, n - 1)
         IN smaller \cup { T \cup {x} : T \in smaller, x \in S }

InitExtract ==
    /\ pc = "extraction"
    /\ rooms_data = [i \in 1..MaxRooms |-> Room(i)]
    /\ subjects_data \in { sd \in SubjectsFiles : ~PreprocessLoop(EmptyAcc, sd).raised }
    /\ days = SubSeq(AllDays, 1, 1)
    /\ periods = SubSeq(AllPeriods, 1, 2)
    /\ processed_data = Preprocessed(rooms_data, subjects_data, days, periods)
    /\ assignments = BuildAssignments(processed_data)
    /\ status = "FEASIBLE"
    /\ solution \in SubsetsUpTo(Range(assignments), MaxTrueVars)
    /\ score = ObjectiveValue(processed_data, assignments, solution)
    /\ timetable = <<>>
    /\ ret = "None"
    /\ printed = <<"Solution trouvee avec score", status>>

extract_results ==
    /\ pc = "extraction"
    /\ timetable' = ExtractTimetable(ResetTimetable(timetable), assignments, solution)
    /\ ret' = CreateModelReturn("solution")
    /\ pc' = "done"
    /\ UNCHANGED <<rooms_data, subjects_data, days, periods, processed_data,
                   assignments, status, solution, score, printed>>

SpecExtract == InitExtract /\ [][extract_results]_vars

(* two true variables of one class in one slot *)
Collision ==
    \E k1 \in solution : \E k2 \in solution \ {k1} :
        KeyClass(k1) = KeyClass(k2) /\ SameSlot(k1, k2)

----------------------------------------------------------------------------
(* Repeated runs on one generator: run() is called again after it ended,   *)
(* with the files as they are then.  self.timetable, self.processed_data   *)
(* and the loaded data are attributes and stay; the model, the variables   *)
(* and the solver of create_model are locals of each call.                 *)

RerunSubjectInputs ==
    [code : {"C1", "C2"}, niveau : Niveaux, semestre : Semestres,
     lecturers : {JsonList(<<"A">>)}, assistants : {JsonList(<<>>)}]

RerunSubjectsFiles == UNION { [1..n -> RerunSubjectInputs] : n \in 0..MaxSubjects }

RerunRoomsFiles == { <<>>, <<Room(1)>> }

InitRerun == Init /\ days = SubSeq(AllDays, 1, 1)

load_data_rerun ==
    /\ pc = "constructed"
    /\ rooms_data' \in RerunRoomsFiles
    /\ subjects_data' \in RerunSubjectsFiles
    /\ pc' = "loaded"
    /\ ret' = "True"
    /\ printed' = <<"Donnees chargees avec succes", "">>
    /\ UNCHANGED <<days, periods, processed_data, assignments, status, solution,
                   score, timetable>>

(* the caller calls run() once more *)
run_again ==
    /\ pc = "done"
    /\ pc' = "constructed"
    /\ assignments' = <<>>
    /\ status' = "UNSOLVED"
    /\ solution' = {}
    /\ score' = 0
    /\ ret' = "None"
    /\ printed' = <<"Debut du traitement", "">>
    /\ UNCHANGED <<rooms_data, subjects_data, days, periods, processed_data, timetable>>

NextRerun ==
    \/ load_data_rerun
    \/ load_data_fails
    \/ preprocess_data
    \/ create_model
    \/ run_again

SpecRerun == InitRerun /\ [][NextRerun]_vars

(* the cells print_timetable and generate_pdf render: for every class of   *)
(* the timetable, the days and periods of processed_data that it holds     *)
Displayed(tt, pd) ==
    { cell \in { c[1] : c \in DOMAIN tt } \X Range(pd.days) \X PeriodLabels(pd) :
        cell \in DOMAIN tt }

(* the entry the extraction stores for a true variable *)
EntryOf(key) ==
    [course |-> KeyCourse(key), teacher |-> KeyTeacher(key), room |-> KeyRoom(key)]

CellOf(key) == <<KeyClass(key), KeyDay(key), KeyPeriod(key)>>

(* a step that is a whole call of create_model *)
CreateModelStep == pc = "preprocessed" /\ pc' = "done"

(* C11: a call of create_model that fails leaves self.timetable as it was, *)
(* and every entry of it is still rendered by print_timetable and          *)
(* generate_pdf; a call that succeeds replaces it: afterwards the          *)
(* timetable holds the entries of the new true variables and nothing else. *)
C11_TimetableFrame ==
    [][ CreateModelStep =>
          IF ret' = "True"
          THEN /\ DOMAIN timetable' = { CellOf(key) : key \in solution' }
               /\ \A key \in solution' : timetable'[CellOf(key)] = EntryOf(key)
          ELSE /\ timetable' = timetable
               /\ Displayed(timetable', processed_data') = DOMAIN timetable ]_vars

(* a later call whose solver found nothing, with the earlier timetable kept *)
C11_Witness ==
    /\ pc = "done"
    /\ ret = "False"
    /\ status \in {"INFEASIBLE", "UNKNOWN"}
    /\ timetable # <<>>

====
